---- MODULE Spec2Model ----
(***************************************************************************)
(* Task routes of the task-tracking REST API (routes/tasks.js), together   *)
(* with the request validators (middleware/validation.js), the Task schema *)
(* (models/Task.js), the middleware chain of server.js and the Users page  *)
(* of the frontend.  Every route handler is one action; the stores are the *)
(* Task and User collections; resp is the response to the last request.    *)
(***************************************************************************)
EXTENDS Integers, Sequences, FiniteSets, TLC

VARIABLES
  tasks,   \* the Task collection: task id -> stored document
  nextId,  \* the next fresh task id (ObjectIds are never reused)
  now,     \* the server clock (new Date()), in milliseconds
  resp,    \* the last request and the response it received
  scan,    \* pages of one listing walked so far by a client, page by page
  accounts, \* the User collection: user id -> role and active flag
  env,     \* process.env.NODE_ENV, read at every error response
  calls,   \* user -> the handler of a request of that user suspended at an await
  view     \* the state of the Tasks page of a signed-in user

vars == <<tasks, nextId, now, resp, scan, accounts, env, calls, view>>

----------------------------------------------------------------------------
(* Bounds of the model. *)

\* tasks ever created in a run of Spec and of SpecList
MaxTasks == 1
MaxListed == 2
\* the last instant of the clock
MaxTime == 1

----------------------------------------------------------------------------
(* Users.  The credential store is not modified by the task routes. *)

Users == {"admin1", "user1", "user2"}

\* the role each account is registered with
RegisteredRole(u) == IF u = "admin1" THEN "admin" ELSE "user"

\* req.user.role of an authenticated caller
Role(u) == IF u \in Users THEN accounts[u].role ELSE "none"

\* a well-formed ObjectId that matches no stored user
GhostId == "ffffffffffffffffffffffff"
\* a string that is not an ObjectId
BadId == "not-an-id"
\* a path parameter that is not an ObjectId
BadTaskId == 0

\* User.findById(id): the user, or null
UserExists(id) == id \in Users

\* express-validator isMongoId() on a user reference
IsMongoId(v) == v # BadId

\* express-validator param('id').isMongoId()
IsTaskObjectId(id) == id # BadTaskId

----------------------------------------------------------------------------
(* Request bodies and query strings are functions from the keys present    *)
(* to their values; an omitted key is outside the DOMAIN.                  *)

Has(b, k) == k \in DOMAIN b

NoBody == [k \in {} |-> 0]

Statuses == {"pending", "in-progress", "completed"}
Priorities == {"low", "medium", "high"}

MinTitleLen == 1
MaxTitleLen == 100
MinDescriptionLen == 1
MaxDescriptionLen == 500

\* a date on the wire: an ISO 8601 string of instant n, or some other string
IsoDate(n) == <<"iso", n>>
JunkDate == <<"junk">>

\* isISO8601()
IsISO8601(v) == v[1] = "iso"

\* toDate(): the Date of an ISO 8601 string
ToDate(v) == v[2]

RECURSIVE TrimLeft(_)
TrimLeft(s) == IF s # <<>> /\ Head(s) = " " THEN TrimLeft(Tail(s)) ELSE s

RECURSIVE TrimRight(_)
TrimRight(s) ==
  IF s # <<>> /\ s[Len(s)] = " " THEN TrimRight(SubSeq(s, 1, Len(s) - 1)) ELSE s

\* trim(): strip the blanks at both ends
Trim(s) == TrimRight(TrimLeft(s))

\* isLength({ min, max })
IsLength(s, min, max) == Len(s) >= min /\ Len(s) <= max

\* The value a validation chain sees for a missing body field.
FieldOrEmpty(b, k) == IF Has(b, k) THEN b[k] ELSE <<>>

\* One entry of errors.array(): the field whose chain failed
ErrIf(failed, field) == IF failed THEN {field} ELSE {}

\* The optional() chains shared by validateTaskCreation and validateTaskUpdate
OptionalFieldErrors(b) ==
       ErrIf(Has(b, "status") /\ b["status"] \notin Statuses, "status")
  \cup ErrIf(Has(b, "priority") /\ b["priority"] \notin Priorities, "priority")
  \cup ErrIf(Has(b, "dueDate") /\ ~IsISO8601(b["dueDate"]), "dueDate")
  \cup ErrIf(Has(b, "assignedTo") /\ ~IsMongoId(b["assignedTo"]), "assignedTo")

\* validateTaskCreation: the fields that fail their chain
CreationErrors(b) ==
       ErrIf(~IsLength(Trim(FieldOrEmpty(b, "title")), MinTitleLen, MaxTitleLen), "title")
  \cup ErrIf(~IsLength(Trim(FieldOrEmpty(b, "description")), MinDescriptionLen, MaxDescriptionLen),
             "description")
  \cup OptionalFieldErrors(b)

\* validateTaskUpdate: every chain is optional()
UpdateErrors(b) ==
       ErrIf(Has(b, "title") /\ ~IsLength(Trim(b["title"]), MinTitleLen, MaxTitleLen), "title")
  \cup ErrIf(Has(b, "description")
               /\ ~IsLength(Trim(b["description"]), MinDescriptionLen, MaxDescriptionLen),
             "description")
  \cup OptionalFieldErrors(b)

\* taskSchema.dueDate validator: !value || value > new Date()
DueDateValid(value, clock) == value > clock

----------------------------------------------------------------------------
(* Responses. *)

NoPagination == [k \in {} |-> 0]

\* a body without statistics
NoStats == [k \in {} |-> 0]

\* a body without an error member (JSON drops a member that is undefined)
NoError == <<>>

\* what the middleware in front of the routers looks at: the Origin header,
\* whether the client is over its rate limit, whether the body parses
AllowedOrigin == "https://scalable-api.vercel.app"
BlockedOrigin == "https://elsewhere.example"
PlainHttp == [origin |-> AllowedOrigin, overLimit |-> FALSE, parsable |-> TRUE]

\* the :id of a request to the users router; none in a request for tasks
NoTarget == ""

\* res.status(code).json(...): items are the task documents in the body
Response(op, caller, id, body, status, items, errors, pagination) ==
  [op |-> op, caller |-> caller, id |-> id, body |-> body, status |-> status,
   items |-> items, errors |-> errors, pagination |-> pagination, error |-> NoError,
   stats |-> NoStats, http |-> PlainHttp, stage |-> "router", target |-> NoTarget]

\* an error member that does not look at NODE_ENV
ErrorMemberAlways(message) == <<message>>

\* error: process.env.NODE_ENV === 'development' ? error.message : undefined
ErrorMember(message) == IF env = "development" THEN <<message>> ELSE NoError

\* the catch block of a route handler
ServerError(op, caller, id, body, message) ==
  [Response(op, caller, id, body, 500, <<>>, {}, NoPagination)
     EXCEPT !.error = ErrorMember(message)]

\* the messages of the errors the handlers catch
ValidationFailed == "Task validation failed"
CastFailed == "Cast to ObjectId failed"
NullReference == "Cannot read properties of null (reading '_id')"
StoreUnavailable == "connect ECONNREFUSED"

\* a handler whose first call to the store throws: the catch block answers
StoreDown(op, caller, id, body) ==
  /\ UNCHANGED <<tasks, nextId, now, scan, accounts, env, calls, view>>
  /\ resp' = ServerError(op, caller, id, body, StoreUnavailable)

Item(id, doc) == [id |-> id, doc |-> doc]

NoScan == [k \in {} |-> 0]

----------------------------------------------------------------------------
(* Stored documents and the documents the model layer hands out. *)

\* the value of a path the stored document does not have
Absent == "(absent)"
NoDate == <<>>

\* a document read through the model gets the schema defaults for the paths
\* it does not have
Hydrate(doc) ==
  [doc EXCEPT !.status = IF @ = Absent THEN "pending" ELSE @,
              !.priority = IF @ = Absent THEN "medium" ELSE @]

----------------------------------------------------------------------------
(* POST /tasks *)

\* the permission checks of the routes
IsAdmin(caller) == Role(caller) = "admin"

\* a handler that forgets to hand status and priority to the constructor
NewTaskOfDefaults(caller, b, clock) ==
  [title |-> Trim(b["title"]),
   description |-> Trim(b["description"]),
   status |-> "pending",
   priority |-> "medium",
   dueDate |-> IF Has(b, "dueDate") THEN <<ToDate(b["dueDate"])>> ELSE <<>>,
   assignedTo |-> IF Has(b, "assignedTo") THEN b["assignedTo"] ELSE caller,
   createdBy |-> caller,
   createdAt |-> clock]

\* a handler with another fallback for the priority
NewTaskOfLowPriority(caller, b, clock) ==
  [title |-> Trim(b["title"]),
   description |-> Trim(b["description"]),
   status |-> IF Has(b, "status") THEN b["status"] ELSE "pending",
   priority |-> IF Has(b, "priority") THEN b["priority"] ELSE "low",
   dueDate |-> IF Has(b, "dueDate") THEN <<ToDate(b["dueDate"])>> ELSE <<>>,
   assignedTo |-> IF Has(b, "assignedTo") THEN b["assignedTo"] ELSE caller,
   createdBy |-> caller,
   createdAt |-> clock]

\* new Task({...}) as built by the create handler from the validated body
NewTask(caller, b, clock) ==
  [title |-> Trim(b["title"]),
   description |-> Trim(b["description"]),
   status |-> IF Has(b, "status") THEN b["status"] ELSE "pending",
   priority |-> IF Has(b, "priority") THEN b["priority"] ELSE "medium",
   dueDate |-> IF Has(b, "dueDate") THEN <<ToDate(b["dueDate"])>> ELSE <<>>,
   assignedTo |-> IF Has(b, "assignedTo") THEN b["assignedTo"] ELSE caller,
   createdBy |-> caller,
   createdAt |-> clock]

\* task.save() validation of the document built by the create handler
SaveValid(doc, clock) == doc.dueDate = <<>> \/ DueDateValid(doc.dueDate[1], clock)

\* the handler without its lookup of the assignee
AssigneeNeverMissing(b) == FALSE

\* if (assignedTo) { user = await User.findById(assignedTo); if (!user) ... }
AssigneeMissing(b) == Has(b, "assignedTo") /\ ~UserExists(b["assignedTo"])

CreateTask(caller, b) ==
  /\ UNCHANGED <<now, accounts, env, calls, view>>
  /\ scan' = NoScan
  /\ IF CreationErrors(b) # {}
       THEN /\ resp' = Response("create", caller, 0, b, 400, <<>>, CreationErrors(b), NoPagination)
            /\ UNCHANGED <<tasks, nextId>>
     ELSE IF AssigneeMissing(b)
       THEN /\ resp' = Response("create", caller, 0, b, 400, <<>>, {}, NoPagination)
            /\ UNCHANGED <<tasks, nextId>>
     ELSE IF ~SaveValid(NewTask(caller, b, now), now)
       THEN /\ resp' = ServerError("create", caller, 0, b, ValidationFailed)
            /\ UNCHANGED <<tasks, nextId>>
     ELSE /\ tasks' = tasks @@ (nextId :> NewTask(caller, b, now))
          /\ nextId' = nextId + 1
          /\ resp' = Response("create", caller, nextId, b, 201,
                              <<Item(nextId, NewTask(caller, b, now))>>, {}, NoPagination)

----------------------------------------------------------------------------
(* GET /tasks/:id *)

\* populate(path, 'username email'): the referenced user, or null when the
\* reference matches no user
Populated(ref) == IF UserExists(ref) THEN <<ref>> ELSE <<>>

\* The access check of GET /tasks/:id reads task.assignedTo._id and
\* task.createdBy._id of the populated document, left to right with && ; reading
\* _id of a null reference throws, and the catch block answers 500.
GetAccess(caller, doc) ==
  IF IsAdmin(caller) THEN "ok"
  ELSE IF Populated(doc.assignedTo) = <<>> THEN "throw"
  ELSE IF doc.assignedTo = caller THEN "ok"
  ELSE IF Populated(doc.createdBy) = <<>> THEN "throw"
  ELSE IF doc.createdBy = caller THEN "ok"
  ELSE "denied"

GetTask(caller, id) ==
  /\ UNCHANGED <<tasks, nextId, now, scan, accounts, env, calls, view>>
  /\ IF ~IsTaskObjectId(id)
       THEN resp' = Response("get", caller, id, NoBody, 400, <<>>, {"id"}, NoPagination)
     ELSE IF id \notin DOMAIN tasks
       THEN resp' = Response("get", caller, id, NoBody, 404, <<>>, {}, NoPagination)
     ELSE IF GetAccess(caller, tasks[id]) = "denied"
       THEN resp' = Response("get", caller, id, NoBody, 403, <<>>, {}, NoPagination)
     ELSE IF GetAccess(caller, tasks[id]) = "throw"
       THEN resp' = ServerError("get", caller, id, NoBody, NullReference)
     ELSE resp' = Response("get", caller, id, NoBody, 200, <<Item(id, Hydrate(tasks[id]))>>, {},
                           NoPagination)

----------------------------------------------------------------------------
(* DELETE /tasks/:id *)

\* a delete that answers and leaves the document in the store
KeepTask(id) == tasks

\* Task.findByIdAndDelete
RemoveTask(id) == [i \in DOMAIN tasks \ {id} |-> tasks[i]]

\* a delete check that lets the assignee through as the update check does
CanDeleteAsAssignee(caller, doc) ==
  IsAdmin(caller) \/ doc.createdBy = caller \/ doc.assignedTo = caller

\* the permission check of DELETE /tasks/:id
CanDelete(caller, doc) == IsAdmin(caller) \/ doc.createdBy = caller

DeleteTask(caller, id) ==
  /\ UNCHANGED <<nextId, now, accounts, env, calls, view>>
  /\ scan' = NoScan
  /\ IF ~IsTaskObjectId(id)
       THEN /\ resp' = Response("delete", caller, id, NoBody, 400, <<>>, {"id"}, NoPagination)
            /\ UNCHANGED tasks
     ELSE IF id \notin DOMAIN tasks
       THEN /\ resp' = Response("delete", caller, id, NoBody, 404, <<>>, {}, NoPagination)
            /\ UNCHANGED tasks
     ELSE IF ~CanDelete(caller, tasks[id])
       THEN /\ resp' = Response("delete", caller, id, NoBody, 403, <<>>, {}, NoPagination)
            /\ UNCHANGED tasks
     ELSE /\ tasks' = RemoveTask(id)
          /\ resp' = Response("delete", caller, id, NoBody, 200, <<>>, {}, NoPagination)

----------------------------------------------------------------------------
(* PUT /tasks/:id *)

\* the paths of taskSchema that an update document may set (strict mode drops
\* every other key)
SchemaPaths ==
  {"title", "description", "status", "priority", "dueDate", "assignedTo", "createdBy"}

\* findByIdAndUpdate(id, req.body): the keys of the body itself are treated as
\* $set, and a "$set" key of the body is an update operator
TopPaths(b) == DOMAIN b \cap SchemaPaths
OpPaths(b) == IF Has(b, "$set") THEN DOMAIN b["$set"] \cap SchemaPaths ELSE {}
SetPaths(b) == TopPaths(b) \cup OpPaths(b)
RawValue(b, k) == IF k \in OpPaths(b) THEN b["$set"][k] ELSE b[k]

\* a "$unset" key of the body removes the paths it names from the document
UnsetPaths(b) == IF Has(b, "$unset") THEN DOMAIN b["$unset"] \cap SchemaPaths ELSE {}

\* a "$currentDate" key of the body sets the Date paths it names to the time
\* of the update
DatePaths == {"dueDate"}
CurrentDatePaths(b) ==
  IF Has(b, "$currentDate") THEN DOMAIN b["$currentDate"] \cap DatePaths ELSE {}

\* the paths of taskSchema declared required
RequiredPaths == {"title", "description", "assignedTo", "createdBy"}

\* Mongoose casts each value to the type of its path; a value that cannot be
\* cast raises CastError
CastOK(k, v) ==
  CASE k = "dueDate" -> IsISO8601(v)
    [] k \in {"assignedTo", "createdBy"} -> IsMongoId(v)
    [] OTHER -> TRUE

CastValue(k, v) ==
  CASE k = "dueDate" -> <<ToDate(v)>>
    [] k \in {"title", "description"} -> Trim(v)
    [] OTHER -> v

\* runValidators: true runs the validators of taskSchema on each path set
PathValid(k, v, clock) ==
  CASE k = "title" -> IsLength(v, MinTitleLen, MaxTitleLen)
    [] k = "description" -> IsLength(v, MinDescriptionLen, MaxDescriptionLen)
    [] k = "status" -> v \in Statuses
    [] k = "priority" -> v \in Priorities
    [] k = "dueDate" -> DueDateValid(v[1], clock)
    [] OTHER -> TRUE

\* the update validators: every path set is cast and validated, a required
\* path cannot be unset, and the store refuses two operators on one path
UpdateAccepted(b, clock) ==
  /\ \A k \in SetPaths(b) :
       /\ CastOK(k, RawValue(b, k))
       /\ PathValid(k, CastValue(k, RawValue(b, k)), clock)
  /\ UnsetPaths(b) \cap RequiredPaths = {}
  /\ UnsetPaths(b) \cap SetPaths(b) = {}
  /\ CurrentDatePaths(b) \cap (SetPaths(b) \cup UnsetPaths(b)) = {}

\* an update that replaces the document: a path the body leaves out falls
\* back to its default
ReplaceDocument(doc, b, clock) ==
  [k \in DOMAIN doc |->
     IF k \in SetPaths(b) THEN CastValue(k, RawValue(b, k))
     ELSE IF k = "status" THEN "pending"
     ELSE IF k = "priority" THEN "medium"
     ELSE IF k = "dueDate" THEN NoDate
     ELSE doc[k]]

\* the document after the update: the paths set take the cast values, the
\* paths unset are gone, and every other path keeps its value
ApplyUpdate(doc, b, clock) ==
  [k \in DOMAIN doc |->
     IF k \in SetPaths(b) THEN CastValue(k, RawValue(b, k))
     ELSE IF k \in UnsetPaths(b) THEN (IF k = "dueDate" THEN NoDate ELSE Absent)
     ELSE IF k \in CurrentDatePaths(b) THEN <<clock>>
     ELSE doc[k]]

\* the check without its assignee clause
CanUpdateAsOwner(caller, doc) == IsAdmin(caller) \/ doc.createdBy = caller

\* the permission check of PUT /tasks/:id
CanUpdate(caller, doc) ==
  IsAdmin(caller) \/ doc.createdBy = caller \/ doc.assignedTo = caller

UpdateTask(caller, id, b) ==
  /\ UNCHANGED <<nextId, now, accounts, env, calls, view>>
  /\ scan' = NoScan
  /\ IF ~IsTaskObjectId(id)
       THEN /\ resp' = Response("update", caller, id, b, 400, <<>>, {"id"}, NoPagination)
            /\ UNCHANGED tasks
     ELSE IF UpdateErrors(b) # {}
       THEN /\ resp' = Response("update", caller, id, b, 400, <<>>, UpdateErrors(b), NoPagination)
            /\ UNCHANGED tasks
     ELSE IF id \notin DOMAIN tasks
       THEN /\ resp' = Response("update", caller, id, b, 404, <<>>, {}, NoPagination)
            /\ UNCHANGED tasks
     ELSE IF ~CanUpdate(caller, tasks[id])
       THEN /\ resp' = Response("update", caller, id, b, 403, <<>>, {}, NoPagination)
            /\ UNCHANGED tasks
     ELSE IF /\ Has(b, "assignedTo")
             /\ b["assignedTo"] # tasks[id].assignedTo
             /\ ~UserExists(b["assignedTo"])
       THEN /\ resp' = Response("update", caller, id, b, 400, <<>>, {}, NoPagination)
            /\ UNCHANGED tasks
     ELSE IF ~UpdateAccepted(b, now)
       THEN /\ resp' = ServerError("update", caller, id, b, ValidationFailed)
            /\ UNCHANGED tasks
     ELSE /\ tasks' = [tasks EXCEPT ![id] = ApplyUpdate(tasks[id], b, now)]
          /\ resp' = Response("update", caller, id, b, 200,
                              <<Item(id, Hydrate(ApplyUpdate(tasks[id], b, now)))>>, {}, NoPagination)

----------------------------------------------------------------------------
(* The clock of the server advances between requests. *)

Tick ==
  /\ now < MaxTime
  /\ now' = now + 1
  /\ UNCHANGED <<tasks, nextId, resp, scan, accounts, env, calls, view>>

----------------------------------------------------------------------------
(* GET /tasks *)

DefaultPage == 1
DefaultLimit == 10
MinPage == 1
MinLimit == 1
MaxLimit == 100

\* validatePagination
PaginationErrors(q) ==
       ErrIf(Has(q, "page") /\ q["page"] < MinPage, "page")
  \cup ErrIf(Has(q, "limit") /\ (q["limit"] < MinLimit \/ q["limit"] > MaxLimit), "limit")

\* parseInt(req.query.x) || dflt
ParseIntOr(q, k, dflt) == IF Has(q, k) /\ q[k] # 0 THEN q[k] ELSE dflt

\* if (req.query.x): the key is present and not the empty string
Truthy(q, k) == Has(q, k) /\ q[k] # ""

\* a filter whose assignedTo key takes the place of the ownership clause
MatchesAssigneeOverrides(caller, q, doc) ==
  /\ IsAdmin(caller) \/ Truthy(q, "assignedTo") \/ doc.assignedTo = caller
       \/ doc.createdBy = caller
  /\ Truthy(q, "status") => doc.status = q["status"]
  /\ Truthy(q, "priority") => doc.priority = q["priority"]
  /\ Truthy(q, "assignedTo") => doc.assignedTo = q["assignedTo"]

\* the filter object of the list handler, applied to one document
Matches(caller, q, doc) ==
  /\ IsAdmin(caller) \/ doc.assignedTo = caller \/ doc.createdBy = caller
  /\ Truthy(q, "status") => doc.status = q["status"]
  /\ Truthy(q, "priority") => doc.priority = q["priority"]
  /\ Truthy(q, "assignedTo") => doc.assignedTo = q["assignedTo"]

Matching(caller, q) == {i \in DOMAIN tasks : Matches(caller, q, tasks[i])}

\* casting filter.assignedTo to ObjectId raises CastError on a malformed id
FilterCastOK(q) == Truthy(q, "assignedTo") => IsMongoId(q["assignedTo"])

\* sort({ createdAt: -1 }): any order of the matching documents in which
\* createdAt never increases; documents with equal createdAt come in an order
\* the store chooses anew for every query.  An order starts with one of the
\* documents created last and goes on with an order of the others.
RECURSIVE SortedOrders(_)
SortedOrders(S) ==
  IF S = {} THEN {<<>>}
  ELSE UNION {{<<i>> \o rest : rest \in SortedOrders(S \ {i})} :
                i \in {j \in S : \A k \in S : tasks[j].createdAt >= tasks[k].createdAt}}

Min(a, b) == IF a < b THEN a ELSE b

\* skip(skip).limit(limit) of the sorted result
SkipLimit(order, skip, limit) == SubSeq(order, skip + 1, Min(skip + limit, Len(order)))

\* Math.floor in the place of Math.ceil
FloorDiv(total, limit) == total \div limit

\* Math.ceil(total / limit)
CeilDiv(total, limit) == (total + limit - 1) \div limit

\* the filter and page size of a listing, which a walk through its pages keeps
Listing(caller, q) ==
  [caller |-> caller, limit |-> ParseIntOr(q, "limit", DefaultLimit),
   filter |-> [k \in DOMAIN q \ {"page", "limit"} |-> q[k]]]

\* the pages a client has put end to end after reading one more page: the next
\* page of the listing it is walking, or the first page of a new walk
Walked(caller, q, page, ids, pages) ==
  IF scan # NoScan /\ scan.listing = Listing(caller, q) /\ page = scan.page + 1
    THEN [scan EXCEPT !.page = page, !.acc = scan.acc \o ids]
  ELSE IF page = 1
    THEN [listing |-> Listing(caller, q), page |-> 1, acc |-> ids, pages |-> pages]
  ELSE NoScan

ListPage(caller, q, order, walking) ==
  LET page == ParseIntOr(q, "page", DefaultPage)
      limit == ParseIntOr(q, "limit", DefaultLimit)
      skip == (page - 1) * limit
      ids == SkipLimit(order, skip, limit)
      total == Cardinality(Matching(caller, q))
  IN /\ resp' = Response("list", caller, 0, q, 200,
                         [n \in 1..Len(ids) |-> Item(ids[n], Hydrate(tasks[ids[n]]))], {},
                         [current |-> page, pages |-> CeilDiv(total, limit),
                          total |-> total, limit |-> limit])
     /\ scan' = IF walking THEN Walked(caller, q, page, ids, CeilDiv(total, limit)) ELSE scan

\* the list handler; walking tells whether the client keeps the page it reads
ListRequest(caller, q, walking) ==
  /\ UNCHANGED <<tasks, nextId, now, accounts, env, calls, view>>
  /\ IF PaginationErrors(q) # {}
       THEN /\ resp' = Response("list", caller, 0, q, 400, <<>>, PaginationErrors(q), NoPagination)
            /\ scan' = IF walking THEN NoScan ELSE scan
     ELSE IF ~FilterCastOK(q)
       THEN /\ resp' = ServerError("list", caller, 0, q, CastFailed)
            /\ scan' = IF walking THEN NoScan ELSE scan
     ELSE \E order \in SortedOrders(Matching(caller, q)) : ListPage(caller, q, order, walking)

ListTasks(caller, q) == ListRequest(caller, q, FALSE)

WalkTasks(caller, q) == ListRequest(caller, q, TRUE)

----------------------------------------------------------------------------
(* GET /tasks/stats/overview *)

\* { $match: filter }: every task for an admin, else the $or of the two
\* ownership clauses
StatsMatch(caller) ==
  {i \in DOMAIN tasks :
     IsAdmin(caller) \/ tasks[i].assignedTo = caller \/ tasks[i].createdBy = caller}

\* { $sum: { $cond: [{ $eq: ['$path', value] }, 1, 0] } } over the matched
\* documents as they are stored
SumWhere(S, path, value) == Cardinality({i \in S : tasks[i][path] = value})

\* the $group stage: one group when a document matched, none otherwise
Aggregate(S) ==
  IF S = {} THEN <<>>
  ELSE <<[total |-> Cardinality(S),
          pending |-> SumWhere(S, "status", "pending"),
          inProgress |-> SumWhere(S, "status", "in-progress"),
          completed |-> SumWhere(S, "status", "completed"),
          highPriority |-> SumWhere(S, "priority", "high"),
          mediumPriority |-> SumWhere(S, "priority", "medium"),
          lowPriority |-> SumWhere(S, "priority", "low")]>>

\* stats[0] || { total: 0, ... }
ZeroStats ==
  [total |-> 0, pending |-> 0, inProgress |-> 0, completed |-> 0,
   highPriority |-> 0, mediumPriority |-> 0, lowPriority |-> 0]

StatsOverview(caller) ==
  /\ UNCHANGED <<tasks, nextId, now, scan, accounts, env, calls, view>>
  /\ resp' = [Response("stats", caller, 0, NoBody, 200, <<>>, {}, NoPagination)
               EXCEPT !.stats = IF Aggregate(StatsMatch(caller)) = <<>>
                                  THEN ZeroStats
                                  ELSE Aggregate(StatsMatch(caller))[1]]

----------------------------------------------------------------------------
(* Handlers suspended at an await.  Every call to the store is awaited, and *)
(* the handlers of other requests run while a handler waits: the handler of *)
(* PUT /tasks/:id between its findById and its findByIdAndUpdate, the       *)
(* handler of GET /tasks between its find and its countDocuments.  calls[u] *)
(* is the suspended handler of a request of user u, with what it holds: the *)
(* request, the await it is at (pc) and the page it has read (items).       *)
(* entitled tells whether the permission check of the route held for the    *)
(* caller when the request arrived.                                         *)

NoCall ==
  [op |-> "none", id |-> 0, body |-> NoBody, pc |-> "none", items |-> <<>>, entitled |-> FALSE]

Call(op, id, b, pc, items, entitled) ==
  [op |-> op, id |-> id, body |-> b, pc |-> pc, items |-> items, entitled |-> entitled]

\* a handler answers: its response goes out and the handler is gone
Answer(caller, response) ==
  /\ resp' = response
  /\ calls' = [calls EXCEPT ![caller] = NoCall]

\* PUT /tasks/:id arrives: authenticate and the validators run, and the
\* handler waits for Task.findById
PutArrive(caller, id, b) ==
  /\ calls[caller] = NoCall
  /\ UNCHANGED <<tasks, nextId, now, scan, accounts, env, view>>
  /\ IF ~IsTaskObjectId(id)
       THEN Answer(caller, Response("update", caller, id, b, 400, <<>>, {"id"}, NoPagination))
     ELSE IF UpdateErrors(b) # {}
       THEN Answer(caller, Response("update", caller, id, b, 400, <<>>, UpdateErrors(b),
                                    NoPagination))
     ELSE /\ calls' = [calls EXCEPT ![caller] =
                         Call("update", id, b, "findById", <<>>,
                              id \in DOMAIN tasks /\ CanUpdate(caller, tasks[id]))]
          /\ UNCHANGED resp

\* Task.findById resolves: the not-found branch, the permission check and the
\* lookup of a new assignee; then the handler waits for findByIdAndUpdate
PutLookup(caller) ==
  LET id == calls[caller].id
      b == calls[caller].body
  IN /\ calls[caller].op = "update" /\ calls[caller].pc = "findById"
     /\ UNCHANGED <<tasks, nextId, now, scan, accounts, env, view>>
     /\ IF id \notin DOMAIN tasks
          THEN Answer(caller, Response("update", caller, id, b, 404, <<>>, {}, NoPagination))
        ELSE IF ~CanUpdate(caller, tasks[id])
          THEN Answer(caller, Response("update", caller, id, b, 403, <<>>, {}, NoPagination))
        ELSE IF /\ Has(b, "assignedTo")
                /\ b["assignedTo"] # tasks[id].assignedTo
                /\ ~UserExists(b["assignedTo"])
          THEN Answer(caller, Response("update", caller, id, b, 400, <<>>, {}, NoPagination))
        ELSE /\ calls' = [calls EXCEPT ![caller].pc = "findByIdAndUpdate"]
             /\ UNCHANGED resp

\* Task.findByIdAndUpdate resolves: the update validators, the write to the
\* document the store holds now, and res.json({ success: true, data:
\* updatedTask }), where updatedTask is null when the store holds no such task
PutWrite(caller) ==
  LET id == calls[caller].id
      b == calls[caller].body
  IN /\ calls[caller].op = "update" /\ calls[caller].pc = "findByIdAndUpdate"
     /\ UNCHANGED <<nextId, now, accounts, env, view>>
     /\ scan' = NoScan
     /\ IF ~UpdateAccepted(b, now)
          THEN /\ Answer(caller, ServerError("update", caller, id, b, ValidationFailed))
               /\ UNCHANGED tasks
        ELSE IF id \notin DOMAIN tasks
          THEN /\ Answer(caller, Response("update", caller, id, b, 200, <<>>, {}, NoPagination))
               /\ UNCHANGED tasks
        ELSE /\ tasks' = [tasks EXCEPT ![id] = ApplyUpdate(tasks[id], b, now)]
             /\ Answer(caller,
                       Response("update", caller, id, b, 200,
                                <<Item(id, Hydrate(ApplyUpdate(tasks[id], b, now)))>>, {},
                                NoPagination))

\* GET /tasks arrives and Task.find resolves: the page of the documents that
\* match now; then the handler waits for countDocuments
ListFind(caller, q) ==
  /\ calls[caller] = NoCall
  /\ UNCHANGED <<tasks, nextId, now, scan, accounts, env, view>>
  /\ IF PaginationErrors(q) # {}
       THEN Answer(caller, Response("list", caller, 0, q, 400, <<>>, PaginationErrors(q),
                                    NoPagination))
     ELSE IF ~FilterCastOK(q)
       THEN Answer(caller, ServerError("list", caller, 0, q, CastFailed))
     ELSE \E order \in SortedOrders(Matching(caller, q)) :
            LET limit == ParseIntOr(q, "limit", DefaultLimit)
                skip == (ParseIntOr(q, "page", DefaultPage) - 1) * limit
                ids == SkipLimit(order, skip, limit)
            IN /\ calls' = [calls EXCEPT ![caller] =
                              Call("list", 0, q, "countDocuments",
                                   [n \in 1..Len(ids) |-> Item(ids[n], Hydrate(tasks[ids[n]]))],
                                   TRUE)]
               /\ UNCHANGED resp

\* Task.countDocuments resolves: the number of documents that match now, and
\* the response with the page read before
ListCount(caller) ==
  LET q == calls[caller].body
      limit == ParseIntOr(q, "limit", DefaultLimit)
      total == Cardinality(Matching(caller, q))
  IN /\ calls[caller].op = "list" /\ calls[caller].pc = "countDocuments"
     /\ UNCHANGED <<tasks, nextId, now, scan, accounts, env, view>>
     /\ Answer(caller,
               Response("list", caller, 0, q, 200, calls[caller].items, {},
                        [current |-> ParseIntOr(q, "page", DefaultPage),
                         pages |-> CeilDiv(total, limit), total |-> total, limit |-> limit]))

----------------------------------------------------------------------------
(* The Tasks page of the frontend: its filters, its pagination, the tasks   *)
(* it shows, and the requests of fetchTasks that wait for their response.   *)

\* the page size the page starts with and sends with every request
PageLimit == 10

\* the signed-in user of the page
PageUser == "user1"

\* useState(...): the page before its first render
FirstView ==
  [filters |-> [status |-> "", priority |-> ""],
   pagination |-> [current |-> 1, pages |-> 1, total |-> 0, limit |-> PageLimit],
   tasks |-> <<>>,
   fetches |-> {},
   latest |-> NoBody]

\* ...(filters.x && { x: filters.x }): a filter goes into the query string
\* when it is set
ParamIfSet(v, k) == IF v.filters[k] # "" THEN (k :> v.filters[k]) ELSE NoBody

\* new URLSearchParams({ page, limit, status, priority }) of fetchTasks
Params(v) ==
  ("page" :> v.pagination.current) @@ ("limit" :> v.pagination.limit)
    @@ ParamIfSet(v, "status") @@ ParamIfSet(v, "priority")

\* fetchTasks up to its await axios.get: the request is on its way; latest is
\* the request sent last
FetchTasks(v) == [v EXCEPT !.fetches = @ \cup {Params(v)}, !.latest = Params(v)]

\* useEffect(() => { fetchTasks() }, [filters, pagination.current]): after a
\* render with new filters or another current page the page fetches again
Rendered(v) ==
  IF v.filters # view.filters \/ v.pagination.current # view.pagination.current
    THEN FetchTasks(v)
    ELSE v

\* onChange of a filter select: setFilters({ ...filters, [k]: value })
SetFilter(k, value) ==
  /\ value # view.filters[k]
  /\ view' = Rendered([view EXCEPT !.filters[k] = value])
  /\ UNCHANGED <<tasks, nextId, now, resp, scan, accounts, env, calls>>

\* the pagination controls are rendered when pagination.pages > 1; a click
\* does setPagination({ ...pagination, current: n })
GoToPage(n) ==
  /\ view.pagination.pages > 1
  /\ view' = Rendered([view EXCEPT !.pagination.current = n])
  /\ UNCHANGED <<tasks, nextId, now, resp, scan, accounts, env, calls>>

\* Clear Filters: setFilters({ status: '', priority: '', search: '' }) is a
\* new filters object whatever the filters were, so the page fetches again
ClearFilters ==
  /\ view' = FetchTasks([view EXCEPT !.filters = FirstView.filters])
  /\ UNCHANGED <<tasks, nextId, now, resp, scan, accounts, env, calls>>

\* Previous, disabled on page 1
ClickPrevious == view.pagination.current # 1 /\ GoToPage(view.pagination.current - 1)

\* the numbered buttons 1..pages
ClickPage(n) == n \in 1..view.pagination.pages /\ GoToPage(n)

\* Next, disabled on the last page
ClickNext ==
  view.pagination.current # view.pagination.pages /\ GoToPage(view.pagination.current + 1)

\* the server answers one of the requests that are on their way
ServeFetch(q) == q \in view.fetches /\ ListTasks(PageUser, q)

\* await axios.get resolves: setTasks and setPagination with the response, or
\* the toast of the catch block; the render that follows may fetch again
FetchCompletes ==
  /\ resp.op = "list" /\ resp.caller = PageUser /\ resp.body \in view.fetches
  /\ UNCHANGED <<tasks, nextId, now, resp, scan, accounts, env, calls>>
  /\ LET arrived == [view EXCEPT !.fetches = @ \ {resp.body}]
     IN view' = IF resp.status = 200
                  THEN Rendered([arrived EXCEPT !.tasks = resp.items,
                                                !.pagination = resp.pagination])
                  ELSE arrived

----------------------------------------------------------------------------
(* The middleware of the application and of the routes of the tasks router. *)

\* an Authorization header that is missing, and one whose token does not verify
NoCredential == "(no credential)"
ForgedCredential == "(forged credential)"

\* authenticate: the credential verifies and resolves to an active user, who
\* becomes req.user
Authenticates(cred) == cred \in Users /\ accounts[cred].isActive

\* a middleware answers the request itself and the chain stops
Answered(http, op, cred, id, b, status, stage) ==
  /\ UNCHANGED <<tasks, nextId, now, scan, accounts, env, calls, view>>
  /\ resp' = [Response(op, cred, id, b, status, <<>>, {}, NoPagination)
               EXCEPT !.http = http, !.stage = stage]

\* authenticate answers 401 when the credential does not authenticate
Unauthorized(op, cred, id, b) == Answered(PlainHttp, op, cred, id, b, 401, "authenticate")

\* router.get('/', authenticate, validatePagination, handler)
GetTasks(cred, q) ==
  IF Authenticates(cred) THEN ListTasks(cred, q) ELSE Unauthorized("list", cred, 0, q)

\* router.get('/:id', authenticate, validateObjectId, handler)
GetTaskById(cred, id) ==
  IF Authenticates(cred) THEN GetTask(cred, id) ELSE Unauthorized("get", cred, id, NoBody)

\* a route whose handler is not behind authenticate
PostTasksOpen(cred, b) == CreateTask(cred, b)

\* a route whose validator comes before authenticate
PostTasksValidatedFirst(cred, b) ==
  IF CreationErrors(b) # {} \/ Authenticates(cred)
    THEN CreateTask(cred, b)
    ELSE Unauthorized("create", cred, 0, b)

\* router.post('/', authenticate, validateTaskCreation, handler)
PostTasks(cred, b) ==
  IF Authenticates(cred) THEN CreateTask(cred, b) ELSE Unauthorized("create", cred, 0, b)

\* router.put('/:id', authenticate, validateObjectId, validateTaskUpdate, handler)
PutTask(cred, id, b) ==
  IF Authenticates(cred) THEN UpdateTask(cred, id, b) ELSE Unauthorized("update", cred, id, b)

\* router.delete('/:id', authenticate, validateObjectId, handler)
DeleteTaskById(cred, id) ==
  IF Authenticates(cred) THEN DeleteTask(cred, id) ELSE Unauthorized("delete", cred, id, NoBody)

\* router.get('/stats/overview', authenticate, handler)
GetStats(cred) ==
  IF Authenticates(cred) THEN StatsOverview(cred) ELSE Unauthorized("stats", cred, 0, NoBody)

\* the statuses of the answers given in front of the routers
CorsErrorStatus == 500
TooManyRequests == 429
ParseErrorStatus == 400

\* app.use(cors), app.use(helmet), app.use(limiter), app.use(morgan),
\* app.use(express.json), app.use('/api/v1/tasks', taskRoutes): the first
\* middleware that refuses the request answers it; helmet and morgan refuse none
Application(http, op, cred, id, b, route) ==
  IF http.origin = BlockedOrigin
    THEN Answered(http, op, cred, id, b, CorsErrorStatus, "cors")
  ELSE IF http.overLimit
    THEN Answered(http, op, cred, id, b, TooManyRequests, "rateLimit")
  ELSE IF ~http.parsable
    THEN Answered(http, op, cred, id, b, ParseErrorStatus, "bodyParser")
  ELSE route

----------------------------------------------------------------------------
(* The admin routes of the users router, and the Users page that calls them. *)

Roles == {"user", "admin"}

\* a handler that does not look at who is asking
NeverOwnAccount(caller, target) == FALSE

\* the target of the request is the account of the caller
OwnAccount(caller, target) == target = caller

\* what authenticate, requireAdmin and the two handlers check before they
\* change an account: the status of the refusal, or 200
UserRouteStatus(caller, target) ==
  IF ~Authenticates(caller) THEN 401
  ELSE IF ~IsAdmin(caller) THEN 403
  ELSE IF ~IsMongoId(target) THEN 400
  ELSE IF ~UserExists(target) THEN 404
  ELSE IF OwnAccount(caller, target) THEN 400
  ELSE 200

UserRoute(op, caller, target, b, status, changed) ==
  /\ UNCHANGED <<tasks, nextId, now, scan, env, calls, view>>
  /\ resp' = [Response(op, caller, 0, b, status, <<>>, {}, NoPagination)
               EXCEPT !.target = target]
  /\ accounts' = IF status = 200 THEN changed ELSE accounts

\* PATCH /users/:id/toggle-status
ToggleStatus(caller, target) ==
  UserRoute("toggle-status", caller, target, NoBody, UserRouteStatus(caller, target),
            [accounts EXCEPT ![target].isActive = ~@])

\* PATCH /users/:id/role
ChangeRole(caller, target, b) ==
  UserRoute("role", caller, target, b,
            IF UserRouteStatus(caller, target) \in {401, 403} THEN UserRouteStatus(caller, target)
            ELSE IF ~Has(b, "role") \/ b["role"] \notin Roles THEN 400
            ELSE UserRouteStatus(caller, target),
            [accounts EXCEPT ![target].role = b["role"]])

\* the rows of the Users page: the users fetchUsers received, none when the
\* viewer is refused the list
Rows(viewer) == IF Authenticates(viewer) /\ IsAdmin(viewer) THEN Users ELSE {}

\* disabled={userItem._id === user._id} on the role select and on the status
\* toggle of a row
ControlDisabled(viewer, row) == row = viewer

\* onClick of the status toggle: handleToggleStatus(userItem._id, ...)
ClickStatusToggle(viewer, row) ==
  /\ row \in Rows(viewer)
  /\ ~ControlDisabled(viewer, row)
  /\ ToggleStatus(viewer, row)

\* onChange of the role select: handleRoleChange(userItem._id, e.target.value)
SelectRole(viewer, row, role) ==
  /\ row \in Rows(viewer)
  /\ ~ControlDisabled(viewer, row)
  /\ ChangeRole(viewer, row, ("role" :> role))

----------------------------------------------------------------------------
(* Request values. *)

TitleA == <<"a">>
TitleB == <<" ", "b", " ">>
LongTitle == [i \in 1..(MaxTitleLen + 1) |-> "x"]
DescriptionD == <<"d">>

BaseBody == ("title" :> TitleA) @@ ("description" :> DescriptionD)

TaskIds(max) == 1..max

----------------------------------------------------------------------------
(* Spec: the life of tasks under create, read, update and delete requests  *)
(* by an admin and two users.                                              *)

NoResponse == Response("none", "none", 0, NoBody, 0, <<>>, {}, NoPagination)

Init ==
  /\ tasks = [i \in {} |-> 0]
  /\ nextId = 1
  /\ now = 0
  /\ resp = NoResponse
  /\ scan = NoScan
  /\ accounts = [u \in Users |-> [role |-> RegisteredRole(u), isActive |-> TRUE]]
  /\ env = "development"
  /\ calls = [u \in Users |-> NoCall]
  /\ view = FirstView

AccessCreateBodies ==
  {BaseBody} \cup {BaseBody @@ ("assignedTo" :> u) : u \in {"user2", GhostId}}

AccessUpdateBodies ==
       {("status" :> "completed")}
  \cup {("assignedTo" :> u) : u \in {"user1", "user2", GhostId}}
  \cup {("createdBy" :> "user2")}
  \cup {("$set" :> ("assignedTo" :> GhostId))}
  \cup {("dueDate" :> IsoDate(MaxTime + 1))}

Create == \E caller \in Users, b \in AccessCreateBodies :
  nextId <= MaxTasks /\ CreateTask(caller, b)

Get == \E caller \in Users, id \in TaskIds(MaxTasks) \cup {BadTaskId} : GetTask(caller, id)

Update == \E caller \in Users, id \in TaskIds(MaxTasks) \cup {BadTaskId}, b \in AccessUpdateBodies :
  UpdateTask(caller, id, b)

Delete == \E caller \in Users, id \in TaskIds(MaxTasks) \cup {BadTaskId} : DeleteTask(caller, id)

Next == Create \/ Get \/ Update \/ Delete

Spec == Init /\ [][Next]_vars

----------------------------------------------------------------------------
(* SpecCreate: creation requests of every shape, as the clock advances.    *)

CreateBodies ==
       {BaseBody}
  \cup {BaseBody @@ ("assignedTo" :> u) : u \in {"user2", GhostId, BadId}}
  \cup {BaseBody @@ ("dueDate" :> IsoDate(t)) : t \in 0..(MaxTime + 1)}
  \cup {BaseBody @@ ("dueDate" :> JunkDate)}
  \cup {BaseBody @@ ("dueDate" :> IsoDate(0)) @@ ("assignedTo" :> GhostId)}
  \cup {BaseBody @@ ("createdBy" :> "user2")}
  \cup {("title" :> TitleB) @@ ("description" :> DescriptionD) @@ ("status" :> "in-progress")}
  \cup {("title" :> LongTitle) @@ ("description" :> DescriptionD)}
  \cup {("description" :> DescriptionD) @@ ("status" :> "done")}

CreateAny == \E caller \in Users, b \in CreateBodies :
  nextId <= MaxTasks /\ CreateTask(caller, b)

DeleteOwn == \E caller \in Users, id \in TaskIds(MaxTasks) : DeleteTask(caller, id)

NextCreate == CreateAny \/ DeleteOwn \/ Tick

SpecCreate == Init /\ [][NextCreate]_vars

----------------------------------------------------------------------------
(* SpecList: listings of a store filled by two users.                      *)

ListCreateBodies ==
  {BaseBody, BaseBody @@ ("status" :> "completed") @@ ("assignedTo" :> "user1")}

PageValues == 0..(MaxListed + 1)
LimitValues == {0, 1, 2, MaxLimit, MaxLimit + 1}

\* the filters of a query string
Filters ==
  {NoBody, ("status" :> "completed"), ("assignedTo" :> "user1"), ("assignedTo" :> "user2"),
   ("assignedTo" :> BadId), ("priority" :> "high"), ("status" :> "")}

\* the paged queries: a page and a limit, alone or with a status filter
Queries ==
       Filters
  \cup {("page" :> p) @@ ("limit" :> l) : p \in PageValues, l \in LimitValues}
  \cup {("page" :> p) @@ ("limit" :> 1) @@ ("status" :> "completed") : p \in PageValues}
  \cup {("page" :> p) : p \in {2}}

CreateListed == \E caller \in {"user1", "user2"}, b \in ListCreateBodies :
  nextId <= MaxListed /\ CreateTask(caller, b)

List == \E caller \in Users, q \in Queries : ListTasks(caller, q)

NextList == CreateListed \/ List

SpecList == Init /\ [][NextList]_vars

----------------------------------------------------------------------------
(* SpecWalk: clients that read a listing page after page and keep the pages. *)

WalkQueries ==
       {("page" :> p) @@ ("limit" :> l) : p \in 1..MaxListed, l \in {1, 2}}
  \cup {("page" :> p) @@ ("limit" :> 1) @@ ("status" :> "completed") : p \in 1..MaxListed}
  \cup {("page" :> 0) @@ ("limit" :> 1), ("assignedTo" :> BadId)}

Walk == \E caller \in {"admin1", "user1"}, q \in WalkQueries : WalkTasks(caller, q)

NextWalk == CreateListed \/ Walk \/ Tick

SpecWalk == Init /\ [][NextWalk]_vars

----------------------------------------------------------------------------
(* SpecStats: statistics over tasks whose status and priority are set at    *)
(* creation and changed by updates.                                         *)

CreateCounted ==
  \E caller \in {"user1", "user2"},
     b \in {BaseBody,
            BaseBody @@ ("status" :> "completed") @@ ("priority" :> "high")
              @@ ("assignedTo" :> "user2")} :
    nextId <= MaxListed /\ CreateTask(caller, b)

UpdateCounted ==
  \E caller \in {"user1"}, id \in TaskIds(MaxListed),
     b \in {("status" :> "in-progress"), ("priority" :> "low"),
            ("$unset" :> ("status" :> "")), ("$unset" :> ("title" :> ""))} :
    UpdateTask(caller, id, b)

Stats == \E caller \in Users : StatsOverview(caller)

NextStats == CreateCounted \/ UpdateCounted \/ Stats

SpecStats == Init /\ [][NextStats]_vars

----------------------------------------------------------------------------
(* SpecRound: tasks are created and then fetched by id.                     *)

RoundCreateBodies ==
  {BaseBody,
   ("title" :> TitleB) @@ ("description" :> <<"d", " ">>) @@ ("status" :> "in-progress")
     @@ ("priority" :> "high") @@ ("dueDate" :> IsoDate(MaxTime + 1)) @@ ("assignedTo" :> "user2"),
   BaseBody @@ ("dueDate" :> IsoDate(0)),
   BaseBody @@ ("priority" :> "low"),
   BaseBody @@ ("assignedTo" :> GhostId)}

CreateRound == \E caller \in Users, b \in RoundCreateBodies :
  nextId <= MaxTasks /\ CreateTask(caller, b)

GetRound == \E caller \in Users, id \in TaskIds(MaxTasks) : GetTask(caller, id)

NextRound == CreateRound \/ GetRound \/ Tick

SpecRound == Init /\ [][NextRound]_vars

----------------------------------------------------------------------------
(* SpecEdit: a task of user1, assigned to user1 or to user2, is updated by  *)
(* the two users with bodies of every shape, as the clock advances.         *)

EditBodies ==
  {("title" :> TitleB),
   ("status" :> "completed") @@ ("priority" :> "high"),
   ("assignedTo" :> "admin1"),
   ("dueDate" :> IsoDate(MaxTime)),
   ("$currentDate" :> ("dueDate" :> TRUE)),
   ("$unset" :> ("dueDate" :> "")),
   ("status" :> "done") @@ ("priority" :> "urgent")}

CreateEdited == \E b \in {BaseBody, BaseBody @@ ("assignedTo" :> "user2")} :
  nextId <= MaxTasks /\ CreateTask("user1", b)

UpdateEdited ==
  \E caller \in {"user1", "user2"}, id \in TaskIds(MaxTasks) \cup {BadTaskId}, b \in EditBodies :
    UpdateTask(caller, id, b)

NextEdit == CreateEdited \/ UpdateEdited \/ Tick

SpecEdit == Init /\ [][NextEdit]_vars

----------------------------------------------------------------------------
(* SpecFrame: one of several tasks of user1 is updated.                     *)

CreateFramed ==
  \E b \in {BaseBody @@ ("status" :> "completed") @@ ("priority" :> "high"),
            BaseBody @@ ("assignedTo" :> "user2")} :
    nextId <= MaxListed /\ CreateTask("user1", b)

UpdateFramed ==
  \E caller \in {"user1", "user2"}, id \in TaskIds(MaxListed),
     b \in {("title" :> TitleB), ("status" :> "in-progress"),
            ("$set" :> ("assignedTo" :> "user2")), ("$unset" :> ("priority" :> ""))} :
    UpdateTask(caller, id, b)

NextFrame == CreateFramed \/ UpdateFramed

SpecFrame == Init /\ [][NextFrame]_vars

----------------------------------------------------------------------------
(* SpecAuth: requests of every route, with and without a credential that    *)
(* authenticates, well-formed and malformed, through the whole application. *)

Credentials == {"user1", NoCredential, ForgedCredential}

HttpShapes ==
  {PlainHttp,
   [PlainHttp EXCEPT !.origin = BlockedOrigin],
   [PlainHttp EXCEPT !.overLimit = TRUE],
   [PlainHttp EXCEPT !.parsable = FALSE],
   [PlainHttp EXCEPT !.overLimit = TRUE, !.parsable = FALSE]}

AppList == \E http \in HttpShapes, cred \in Credentials, q \in {NoBody, ("page" :> 0)} :
  Application(http, "list", cred, 0, q, GetTasks(cred, q))

AppGet == \E http \in HttpShapes, cred \in Credentials, id \in TaskIds(MaxTasks) \cup {BadTaskId} :
  Application(http, "get", cred, id, NoBody, GetTaskById(cred, id))

AppCreate ==
  \E http \in HttpShapes, cred \in Credentials,
     b \in {BaseBody, ("description" :> DescriptionD) @@ ("status" :> "done")} :
  nextId <= MaxTasks /\ Application(http, "create", cred, 0, b, PostTasks(cred, b))

AppUpdate ==
  \E http \in HttpShapes, cred \in Credentials, id \in TaskIds(MaxTasks) \cup {BadTaskId},
     b \in {("status" :> "completed"), ("priority" :> "urgent")} :
  Application(http, "update", cred, id, b, PutTask(cred, id, b))

AppDelete == \E http \in HttpShapes, cred \in Credentials, id \in TaskIds(MaxTasks) \cup {BadTaskId} :
  Application(http, "delete", cred, id, NoBody, DeleteTaskById(cred, id))

AppStats == \E http \in HttpShapes, cred \in Credentials :
  Application(http, "stats", cred, 0, NoBody, GetStats(cred))

NextAuth == AppList \/ AppGet \/ AppCreate \/ AppUpdate \/ AppDelete \/ AppStats

SpecAuth == Init /\ [][NextAuth]_vars

----------------------------------------------------------------------------
(* SpecUsers: accounts are activated, deactivated, promoted and demoted,    *)
(* through the Users page and by requests sent to the two routes directly.  *)

PatchStatus == \E caller \in Users, target \in Users \cup {GhostId, BadId} :
  ToggleStatus(caller, target)

PatchRole ==
  \E caller \in Users, target \in Users \cup {GhostId, BadId},
     b \in {("role" :> "user"), ("role" :> "admin"), ("role" :> "owner"), NoBody} :
  ChangeRole(caller, target, b)

PageToggle == \E viewer \in Users, row \in Users : ClickStatusToggle(viewer, row)

PageRole == \E viewer \in Users, row \in Users, role \in Roles : SelectRole(viewer, row, role)

NextUsers == PatchStatus \/ PatchRole \/ PageToggle \/ PageRole

SpecUsers == Init /\ [][NextUsers]_vars

----------------------------------------------------------------------------
(* SpecEnv: the server runs under any NODE_ENV, and requests fail in the    *)
(* handlers: on validation at save, on a cast, on a null reference, on a    *)
(* store that is down.                                                      *)

\* the values of NODE_ENV; the empty string stands for a variable not set
NodeEnvs == {"development", "production", "test", ""}

InitEnv ==
  /\ tasks = [i \in {} |-> 0]
  /\ nextId = 1
  /\ now = 0
  /\ resp = NoResponse
  /\ scan = NoScan
  /\ accounts = [u \in Users |-> [role |-> RegisteredRole(u), isActive |-> TRUE]]
  /\ env \in NodeEnvs
  /\ calls = [u \in Users |-> NoCall]
  /\ view = FirstView

CreateEnv == \E b \in {BaseBody, BaseBody @@ ("dueDate" :> IsoDate(0))} :
  nextId <= MaxTasks /\ CreateTask("user1", b)

UpdateEnv ==
  \E id \in TaskIds(MaxTasks),
     b \in {("$set" :> ("assignedTo" :> GhostId)), ("dueDate" :> IsoDate(0))} :
    UpdateTask("user1", id, b)

GetEnv == \E caller \in {"user1", "user2"}, id \in TaskIds(MaxTasks) : GetTask(caller, id)

ListEnv == \E q \in {NoBody, ("assignedTo" :> BadId)} : ListTasks("user1", q)

FailEnv == \E op \in {"list", "get", "create", "update", "delete", "stats"} :
  StoreDown(op, "user1", 0, NoBody)

NextEnv == CreateEnv \/ UpdateEnv \/ GetEnv \/ ListEnv \/ FailEnv

SpecEnv == InitEnv /\ [][NextEnv]_vars

----------------------------------------------------------------------------
(* SpecStatus: the admin, the creator and the assignee of a task set its    *)
(* status, with bodies of plain fields and with update operators.           *)

CreateStatused ==
  \E b \in {BaseBody @@ ("assignedTo" :> "user2"), BaseBody @@ ("status" :> "completed")} :
    nextId <= MaxTasks /\ CreateTask("user1", b)

UpdateStatus ==
  \E caller \in Users, id \in TaskIds(MaxTasks),
     b \in {("status" :> s) : s \in Statuses \cup {"done"}}
             \cup {("$set" :> ("status" :> "done")), ("$unset" :> ("status" :> ""))} :
    UpdateTask(caller, id, b)

GetStatus == \E caller \in Users, id \in TaskIds(MaxTasks) : GetTask(caller, id)

NextStatus == CreateStatused \/ UpdateStatus \/ GetStatus

SpecStatus == Init /\ [][NextStatus]_vars

----------------------------------------------------------------------------
(* SpecRace: the creator and the assignee of a task send PUT requests whose *)
(* handlers overlap.                                                        *)

CreateRaced == \E b \in {BaseBody @@ ("assignedTo" :> "user2")} :
  nextId <= MaxTasks /\ CreateTask("user1", b)

ArriveRaced ==
  \E caller \in {"user1", "user2"}, id \in TaskIds(MaxTasks),
     b \in {("status" :> "completed"), ("priority" :> "high"),
            ("status" :> "in-progress") @@ ("priority" :> "low"),
            ("assignedTo" :> "user1")} :
    PutArrive(caller, id, b)

LookupRaced == \E caller \in {"user1", "user2"} : PutLookup(caller)

WriteRaced == \E caller \in {"user1", "user2"} : PutWrite(caller)

NextRace == CreateRaced \/ ArriveRaced \/ LookupRaced \/ WriteRaced

SpecRace == Init /\ [][NextRace]_vars

----------------------------------------------------------------------------
(* SpecOwner: every task is created by user1, for user1 or for user2;      *)
(* user2 updates, and the two users and the admin delete.                   *)

CreateOwned == \E b \in {BaseBody, BaseBody @@ ("assignedTo" :> "user2")} :
  nextId <= MaxTasks /\ CreateTask("user1", b)

\* the requests of user2, who created none of the tasks
UpdateOwned ==
  \E id \in TaskIds(MaxTasks),
     b \in {("status" :> "completed"), ("priority" :> "high"), ("title" :> TitleB),
            ("assignedTo" :> "admin1"),
            ("createdBy" :> "user2"), ("$set" :> ("createdBy" :> "user2"))} :
    UpdateTask("user2", id, b)

DeleteOwned == \E caller \in Users, id \in TaskIds(MaxTasks) : DeleteTask(caller, id)

NextOwner == CreateOwned \/ UpdateOwned \/ DeleteOwned

SpecOwner == Init /\ [][NextOwner]_vars

----------------------------------------------------------------------------
(* SpecVanish: a task is deleted while the handler of a PUT on it is under  *)
(* way.                                                                     *)

CreateVanishing == \E b \in {BaseBody, BaseBody @@ ("assignedTo" :> "user2")} :
  nextId <= MaxTasks /\ CreateTask("user1", b)

ArriveVanishing ==
  \E caller \in {"user1", "user2"}, id \in TaskIds(MaxTasks),
     b \in {("status" :> "completed"), ("dueDate" :> IsoDate(0))} :
    PutArrive(caller, id, b)

LookupVanishing == \E caller \in {"user1", "user2"} : PutLookup(caller)

WriteVanishing == \E caller \in {"user1", "user2"} : PutWrite(caller)

DeleteVanishing == \E caller \in {"user1", "admin1"}, id \in TaskIds(MaxTasks) :
  DeleteTask(caller, id)

NextVanish ==
  CreateVanishing \/ ArriveVanishing \/ LookupVanishing \/ WriteVanishing \/ DeleteVanishing

SpecVanish == Init /\ [][NextVanish]_vars

----------------------------------------------------------------------------
(* SpecCount: tasks are created and deleted while handlers of GET /tasks    *)
(* are between their find and their countDocuments.                         *)

CreateCounting == \E b \in {BaseBody, BaseBody @@ ("status" :> "completed")} :
  nextId <= MaxListed /\ CreateTask("user1", b)

DeleteCounting == \E id \in TaskIds(MaxListed) : DeleteTask("user1", id)

FindCounting ==
  \E caller \in {"user1", "admin1"},
     q \in {NoBody, ("status" :> "completed"), ("page" :> 2) @@ ("limit" :> 1),
           ("page" :> 0), ("assignedTo" :> BadId)} :
    ListFind(caller, q)

CountCounting == \E caller \in {"user1", "admin1"} : ListCount(caller)

NextCount == CreateCounting \/ DeleteCounting \/ FindCounting \/ CountCounting

SpecCount == Init /\ [][NextCount]_vars

----------------------------------------------------------------------------
(* SpecGone: tasks of user1 are deleted, and every user then asks for them  *)
(* by id, in listings and in the statistics; a PUT of the assignee may be   *)
(* under way when its task is deleted.                                      *)

CreateGone == \E b \in {BaseBody @@ ("assignedTo" :> "user2")} :
  nextId <= MaxListed /\ CreateTask("user1", b)

DeleteGone == \E caller \in Users, id \in TaskIds(MaxListed) : DeleteTask(caller, id)

GetGone == \E caller \in Users, id \in TaskIds(MaxListed) : GetTask(caller, id)

UpdateGone ==
  \E caller \in Users, id \in TaskIds(MaxListed),
     b \in {("status" :> "completed"), ("status" :> "done")} :
    UpdateTask(caller, id, b)

ListGone == \E caller \in Users : ListTasks(caller, NoBody)

StatsGone == \E caller \in Users : StatsOverview(caller)

ArriveGone == \E id \in TaskIds(MaxListed) : PutArrive("user2", id, ("priority" :> "high"))

LookupGone == PutLookup("user2")

WriteGone == PutWrite("user2")

NextGone ==
  \/ CreateGone \/ DeleteGone \/ GetGone \/ UpdateGone \/ ListGone \/ StatsGone
  \/ ArriveGone \/ LookupGone \/ WriteGone

SpecGone == Init /\ [][NextGone]_vars

----------------------------------------------------------------------------
(* SpecPage: the Tasks page of user1 over a store of one task more than a   *)
(* page holds, created one after the other; the user sets and clears        *)
(* filters and clicks through the pages while requests are on their way.    *)

StockedTask(i) ==
  NewTask(PageUser,
          BaseBody @@ ("status" :> IF i = 1 THEN "completed" ELSE "pending")
                   @@ ("priority" :> IF i <= 2 THEN "high" ELSE "medium"),
          i)

InitPage ==
  /\ tasks = [i \in 1..(PageLimit + 1) |-> StockedTask(i)]
  /\ nextId = PageLimit + 2
  /\ now = PageLimit + 2
  /\ resp = NoResponse
  /\ scan = NoScan
  /\ accounts = [u \in Users |-> [role |-> RegisteredRole(u), isActive |-> TRUE]]
  /\ env = "development"
  /\ calls = [u \in Users |-> NoCall]
  /\ view = FetchTasks(FirstView)

ChooseFilter ==
  \/ \E value \in {"", "completed"} : SetFilter("status", value)
  \/ \E value \in {"", "high"} : SetFilter("priority", value)

ChoosePage == ClickPrevious \/ ClickNext \/ \E n \in 1..2 : ClickPage(n)

Serve == \E q \in view.fetches : ServeFetch(q)

NextPage == ChooseFilter \/ ClearFilters \/ ChoosePage \/ Serve \/ FetchCompletes

SpecPage == InitPage /\ [][NextPage]_vars

----------------------------------------------------------------------------
(* Claims. *)

\* the caller of a response is the assignee or the creator of a document
Owns(caller, doc) == doc.assignedTo = caller \/ doc.createdBy = caller

\* C2: GET /tasks/:id returns the task body only to an admin, the assignee or the
\* creator; any other caller receives 403 and no task data, and an admin can
\* fetch any existing task.
GetByIdDecidesByOwnership ==
  (resp.op = "get" /\ resp.id \in DOMAIN tasks) =>
    LET doc == tasks[resp.id]
        allowed == IsAdmin(resp.caller) \/ Owns(resp.caller, doc)
    IN /\ resp.items # <<>> => allowed
       /\ ~allowed => (resp.status = 403 /\ resp.items = <<>>)
       /\ IsAdmin(resp.caller) => (resp.status = 200 /\ resp.items = <<Item(resp.id, doc)>>)

\* C3: DELETE /tasks/:id removes a task only for an admin or the creator of the
\* task; a caller who is neither (the assignee included) receives 403 and the
\* store is unchanged.
DeleteOnlyByAdminOrCreator ==
  [][\A id \in DOMAIN tasks :
       /\ id \notin DOMAIN tasks' =>
            /\ resp'.op = "delete" /\ resp'.id = id /\ resp'.status = 200
            /\ IsAdmin(resp'.caller) \/ tasks[id].createdBy = resp'.caller
       /\ ( /\ resp'.op = "delete" /\ resp'.id = id
            /\ ~IsAdmin(resp'.caller) /\ tasks[id].createdBy # resp'.caller )
            => (resp'.status = 403 /\ tasks' = tasks)]_vars

\* C3 witness: the assignee of a task, who did not create it, was refused.
AssigneeRefusedDelete ==
  /\ resp.op = "delete" /\ resp.status = 403
  /\ resp.id \in DOMAIN tasks
  /\ tasks[resp.id].assignedTo = resp.caller
  /\ tasks[resp.id].createdBy # resp.caller

\* a payload of the documented fields only, each valid: the validators accept
\* it, its assignee exists and its due date is in the future
ValidUpdatePayload(b, clock) ==
  /\ DOMAIN b \subseteq {"title", "description", "status", "priority", "dueDate", "assignedTo"}
  /\ UpdateErrors(b) = {}
  /\ Has(b, "assignedTo") => UserExists(b["assignedTo"])
  /\ Has(b, "dueDate") => ToDate(b["dueDate"]) > clock

\* C4: PUT /tasks/:id on an existing task with a valid payload succeeds for an
\* admin, the creator and the current assignee; any other caller receives 403
\* and the stored task is unchanged.
UpdateByAdminCreatorOrAssignee ==
  [][\A id \in DOMAIN tasks :
       ( /\ resp'.op = "update" /\ resp'.id = id
         /\ ValidUpdatePayload(resp'.body, now) )
       => IF IsAdmin(resp'.caller) \/ Owns(resp'.caller, tasks[id])
            THEN /\ resp'.status = 200
                 /\ resp'.items = <<Item(id, tasks'[id])>>
                 /\ Has(resp'.body, "status") => tasks'[id].status = resp'.body["status"]
                 /\ Has(resp'.body, "assignedTo") =>
                      tasks'[id].assignedTo = resp'.body["assignedTo"]
            ELSE resp'.status = 403 /\ tasks' = tasks]_vars

\* C4 witness: an assignee who is neither admin nor creator has updated the task.
AssigneeUpdated ==
  /\ resp.op = "update" /\ resp.status = 200
  /\ resp.id \in DOMAIN tasks
  /\ ~IsAdmin(resp.caller)
  /\ tasks[resp.id].createdBy # resp.caller
  /\ tasks[resp.id].assignedTo = resp.caller
  /\ resp.body = ("status" :> "completed")

\* C5: createdBy is the caller of the create request and never changes
\* afterwards, whatever the bodies of later requests contain.
CreatorIsCallerAndImmutable ==
  [][/\ \A id \in DOMAIN tasks' \ DOMAIN tasks : tasks'[id].createdBy = resp'.caller
     /\ \A id \in DOMAIN tasks' \cap DOMAIN tasks : tasks'[id].createdBy = tasks[id].createdBy]_vars

\* C6: a create request whose dueDate is not later than the clock is answered
\* 400 and stores nothing; one with a valid title and description and no
\* dueDate is answered 201.
CreateRejectsPastDueDate ==
  [][(resp'.op = "create" /\ now' = now) =>
       /\ ( /\ Has(resp'.body, "dueDate")
            /\ IsISO8601(resp'.body["dueDate"])
            /\ ToDate(resp'.body["dueDate"]) <= now )
            => (resp'.status = 400 /\ tasks' = tasks)
       /\ (DOMAIN resp'.body = {"title", "description"} /\ CreationErrors(resp'.body) = {})
            => resp'.status = 201]_vars

\* C7: a create request whose assignedTo is a well-formed id of no user is
\* answered 400 and stores nothing.
CreateRejectsUnknownAssignee ==
  [][( /\ resp'.op = "create" /\ now' = now
       /\ Has(resp'.body, "assignedTo")
       /\ IsMongoId(resp'.body["assignedTo"])
       /\ resp'.body["assignedTo"] \notin Users )
     => (resp'.status = 400 /\ tasks' = tasks /\ nextId' = nextId)]_vars

\* C7 witness: the handler, not the validator, refused an unknown assignee.
UnknownAssigneeRefused ==
  /\ resp.op = "create" /\ resp.status = 400 /\ resp.errors = {}
  /\ Has(resp.body, "assignedTo")
  /\ resp.body["assignedTo"] = GhostId

\* C8: every stored task is assigned to an existing user.
AssigneeAlwaysExists == \A id \in DOMAIN tasks : tasks[id].assignedTo \in Users

\* C1: every task a non-admin caller receives from GET /tasks is assigned to or
\* created by the caller, whatever status, priority and assignedTo filters the
\* query carries.
ListShowsOnlyOwnTasks ==
  (resp.op = "list" /\ resp.status = 200 /\ ~IsAdmin(resp.caller)) =>
    \A n \in 1..Len(resp.items) :
      /\ resp.items[n].id \in DOMAIN tasks
      /\ resp.items[n].doc = tasks[resp.items[n].id]
      /\ Owns(resp.caller, resp.items[n].doc)

\* C1 witness: a user listed the tasks assigned to somebody else and received
\* some, while the store holds a task of that assignee the caller has no part in.
ListFilteredByOtherAssignee ==
  /\ resp.op = "list" /\ resp.status = 200 /\ ~IsAdmin(resp.caller)
  /\ Has(resp.body, "assignedTo")
  /\ resp.body["assignedTo"] # resp.caller
  /\ resp.items # <<>>
  /\ \E i \in DOMAIN tasks :
       tasks[i].assignedTo = resp.body["assignedTo"] /\ ~Owns(resp.caller, tasks[i])

\* the page and the limit a query asks for
AskedPage(q) == IF Has(q, "page") THEN q["page"] ELSE 1
AskedLimit(q) == IF Has(q, "limit") THEN q["limit"] ELSE 10

Max(a, b) == IF a > b THEN a ELSE b

\* C9: for page p >= 1 and limit L in 1..100 against N matching tasks, total = N,
\* pages = ceil(N / L), current = p, limit = L and the page holds
\* min(L, max(0, N - (p - 1) * L)) tasks; any other page or limit is answered 400.
PaginationArithmetic ==
  resp.op = "list" =>
    LET p == AskedPage(resp.body)
        l == AskedLimit(resp.body)
        n == Cardinality({i \in DOMAIN tasks :
                            /\ IsAdmin(resp.caller) \/ Owns(resp.caller, tasks[i])
                            /\ Has(resp.body, "status") /\ resp.body["status"] # ""
                                 => tasks[i].status = resp.body["status"]
                            /\ Has(resp.body, "priority") => tasks[i].priority = resp.body["priority"]
                            /\ Has(resp.body, "assignedTo")
                                 => tasks[i].assignedTo = resp.body["assignedTo"]})
    IN /\ (p < 1 \/ l < 1 \/ l > 100) => resp.status = 400
       /\ resp.status = 200 =>
            /\ resp.pagination.total = n
            /\ resp.pagination.pages * l >= n
            /\ (resp.pagination.pages - 1) * l < n
            /\ resp.pagination.current = p
            /\ resp.pagination.limit = l
            /\ Len(resp.items) = Min(l, Max(0, n - (p - 1) * l))
       /\ ( /\ p >= 1 /\ l >= 1 /\ l <= 100
            /\ Has(resp.body, "assignedTo") => IsMongoId(resp.body["assignedTo"]) )
            => resp.status = 200

\* C9 witness: the last page of a listing of several pages, partly filled or not.
LastPageListed ==
  /\ resp.op = "list" /\ resp.status = 200
  /\ resp.pagination.pages >= 2
  /\ resp.pagination.current = resp.pagination.pages
  /\ Len(resp.items) >= 1

\* C10: the pages 1..pages of one listing, read with the same caller, filter and
\* limit from an unchanged store and put end to end, hold every matching task
\* exactly once, most recently created first.
WalkHoldsEachTaskOnce ==
  (scan # NoScan /\ scan.page = scan.pages) =>
    LET m == Matching(scan.listing.caller, scan.listing.filter)
    IN /\ Len(scan.acc) = Cardinality(m)
       /\ {scan.acc[n] : n \in 1..Len(scan.acc)} = m
       /\ \A i, j \in 1..Len(scan.acc) :
            i < j => tasks[scan.acc[i]].createdAt >= tasks[scan.acc[j]].createdAt

\* C11: GET /tasks/stats/overview counts the caller's visible tasks (all tasks
\* for an admin, else those the caller is assignee or creator of): total is
\* their number, the three status counts add up to total and so do the three
\* priority counts; with no visible task every count is 0.
StatsCountVisibleTasks ==
  resp.op = "stats" =>
    LET v == {i \in DOMAIN tasks : IsAdmin(resp.caller) \/ Owns(resp.caller, tasks[i])}
        st == resp.stats
    IN /\ resp.status = 200
       /\ st.total = Cardinality(v)
       /\ st.pending + st.inProgress + st.completed = st.total
       /\ st.highPriority + st.mediumPriority + st.lowPriority = st.total
       /\ v = {} => st = ZeroStats

\* a request answered 201 by POST /tasks is followed by a GET of the created
\* task by the same caller, no other request in between
FetchAfterCreate ==
  /\ resp.op = "create" /\ resp.status = 201
  /\ resp'.op = "get" /\ resp'.id = resp.id /\ resp'.caller = resp.caller

\* the value submitted for a field, or the documented default
Submitted(b, k, dflt) == IF Has(b, k) THEN b[k] ELSE dflt

\* what the round trip preserves besides title and description: status,
\* priority and the instant of dueDate, with both references resolved to users
RoundTripOfTheRest(b, doc) ==
  /\ doc.status = Submitted(b, "status", "pending")
  /\ doc.priority = Submitted(b, "priority", "medium")
  /\ doc.dueDate = IF Has(b, "dueDate") THEN <<b["dueDate"][2]>> ELSE <<>>
  /\ doc.assignedTo \in Users /\ doc.createdBy \in Users

\* C12 as stated: a task fetched by its creator right after its creation has
\* the title, description, status, priority and dueDate that were submitted,
\* and assignedTo and createdBy resolve to users.
RoundTripAsSubmitted ==
  [][FetchAfterCreate =>
       /\ resp'.status = 200
       /\ resp'.items[1].doc.title = resp.body["title"]
       /\ resp'.items[1].doc.description = resp.body["description"]
       /\ RoundTripOfTheRest(resp.body, resp'.items[1].doc)]_vars

\* C12 amended: the title and the description come back with the whitespace
\* around them removed; the rest comes back as submitted.
RoundTripTrimmed ==
  [][FetchAfterCreate =>
       /\ resp'.status = 200
       /\ resp'.items[1].doc.title = Trim(resp.body["title"])
       /\ resp'.items[1].doc.description = Trim(resp.body["description"])
       /\ RoundTripOfTheRest(resp.body, resp'.items[1].doc)]_vars

\* C12 witness: the creator fetched a task submitted with a padded title, a
\* status, a priority, a due date and another user as assignee.
PaddedTaskFetched ==
  /\ resp.op = "get" /\ resp.status = 200
  /\ resp.caller = tasks[resp.id].createdBy
  /\ resp.items[1].doc.title = <<"b">>
  /\ resp.items[1].doc.priority = "high"
  /\ resp.items[1].doc.dueDate # <<>>
  /\ resp.items[1].doc.assignedTo # resp.caller

\* C13: a PUT /tasks/:id that repeats the payload, the caller and the task of
\* the request before it leaves the stored task as that request left it, also
\* when the payload reassigned the task away from the caller.
RepeatedUpdateChangesNothing ==
  [][( /\ resp.op = "update" /\ resp'.op = "update"
       /\ resp'.caller = resp.caller /\ resp'.id = resp.id /\ resp'.body = resp.body )
     => tasks' = tasks]_vars

\* the update operators a body may carry
UpdateOperators == {"$set", "$unset", "$currentDate"}

\* the task fields a body names, itself or under an update operator
FieldsNamed(b) ==
  DOMAIN b \cup UNION {DOMAIN b[op] : op \in DOMAIN b \cap UpdateOperators}

ViolatedFields(r) ==
  IF r.op = "create" THEN CreationErrors(r.body)
  ELSE ErrIf(~IsTaskObjectId(r.id), "id") \cup UpdateErrors(r.body)

\* C15: a create or update request that breaks the rules of several fields is
\* answered 400 with every one of these fields listed, and the store is as it
\* was before the request.
EveryViolatedFieldListed ==
  [][(resp'.op \in {"create", "update"} /\ Cardinality(ViolatedFields(resp')) >= 2) =>
       /\ resp'.status = 400
       /\ resp'.errors = ViolatedFields(resp')
       /\ tasks' = tasks]_vars

\* the request reached the tasks router
ReachedRouter(r) == r.op # "none" /\ r.http = PlainHttp

\* C16: a request to any task route whose credential is missing or does not
\* verify is answered 401 with no task data, and the store is as it was before.
UnauthenticatedAnswered401 ==
  [][(ReachedRouter(resp') /\ resp'.caller \in {NoCredential, ForgedCredential}) =>
       /\ resp'.status = 401
       /\ resp'.items = <<>> /\ resp'.stats = NoStats /\ resp'.pagination = NoPagination
       /\ tasks' = tasks /\ nextId' = nextId]_vars

\* C16 witness: the delete of an existing task was refused for want of a
\* credential.
DeleteWithoutCredentialRefused ==
  /\ resp.op = "delete" /\ resp.status = 401
  /\ resp.caller = NoCredential
  /\ resp.id \in DOMAIN tasks

\* the request breaks a rule of the validators of its route
Malformed(r) ==
  CASE r.op = "list" -> PaginationErrors(r.body) # {}
    [] r.op \in {"get", "delete"} -> ~IsTaskObjectId(r.id)
    [] r.op = "create" -> CreationErrors(r.body) # {}
    [] r.op = "update" -> ~IsTaskObjectId(r.id) \/ UpdateErrors(r.body) # {}
    [] OTHER -> FALSE

\* the stages in front of the routers answer in the order CORS, rate limit,
\* body parsing
FrontStagesInOrder(r) ==
  /\ r.http.origin = BlockedOrigin => r.stage = "cors"
  /\ (r.http.origin # BlockedOrigin /\ r.http.overLimit) => r.stage = "rateLimit"
  /\ (r.http.origin # BlockedOrigin /\ ~r.http.overLimit /\ ~r.http.parsable)
       => r.stage = "bodyParser"
  /\ r.stage \in {"cors", "rateLimit", "bodyParser"} => (r.errors = {} /\ r.status # 401)

\* C20 as stated: the stages answer in the order CORS/rate-limit, body parsing,
\* validator, authenticator, handler, so a malformed request without a valid
\* credential is answered 400 by the validator.
ValidatorBeforeAuthenticator ==
  resp.op # "none" =>
    /\ FrontStagesInOrder(resp)
    /\ (ReachedRouter(resp) /\ Malformed(resp)) => (resp.status = 400 /\ resp.errors # {})
    /\ (ReachedRouter(resp) /\ ~Malformed(resp) /\ resp.caller \notin Users)
         => resp.status = 401

\* C20 amended: the stages answer in the order CORS/rate-limit, body parsing,
\* authenticator, validator, handler, so a malformed request without a valid
\* credential is answered 401 by the authenticator, and a malformed request
\* with one is answered 400 by the validator.
AuthenticatorBeforeValidator ==
  resp.op # "none" =>
    /\ FrontStagesInOrder(resp)
    /\ (ReachedRouter(resp) /\ resp.caller \notin Users)
         => (resp.status = 401 /\ resp.errors = {})
    /\ (ReachedRouter(resp) /\ resp.caller \in Users /\ Malformed(resp))
         => (resp.status = 400 /\ resp.errors # {})
    /\ (ReachedRouter(resp) /\ resp.caller \in Users /\ ~Malformed(resp))
         => (resp.status # 401 /\ resp.errors = {})

\* C20 witness: a create request without title and without a valid credential
\* was answered 401.
MalformedUnauthenticatedAnswered ==
  /\ resp.op = "create" /\ resp.http = PlainHttp
  /\ resp.caller = ForgedCredential
  /\ ~Has(resp.body, "title")
  /\ resp.status = 401

\* C17: a toggle-status or role request whose target is the caller's own
\* account is refused, whatever the role of the caller, and no such request
\* changes the role or the active flag of the account it comes from.
OwnAccountNeverChanged ==
  [][resp'.op \in {"toggle-status", "role"} =>
       /\ resp'.target = resp'.caller => (resp'.status >= 400 /\ accounts' = accounts)
       /\ accounts'[resp'.caller] = accounts[resp'.caller]]_vars

\* C17 witness: an admin in office asked for its own demotion and was refused.
AdminRefusedOwnDemotion ==
  /\ resp.op = "role" /\ resp.status = 400
  /\ resp.caller = "admin1" /\ resp.target = "admin1"
  /\ resp.body = ("role" :> "user")
  /\ accounts["admin1"] = [role |-> "admin", isActive |-> TRUE]

\* C18: a task created by POST /tasks without assignedTo is assigned to the
\* caller, without status it is stored as pending, without priority as medium.
CreateFillsDefaults ==
  [][(resp'.op = "create" /\ resp'.status = 201 /\ nextId' = nextId + 1) =>
       LET doc == tasks'[resp'.id]
           b == resp'.body
       IN /\ ~Has(b, "assignedTo") => doc.assignedTo = resp'.caller
          /\ ~Has(b, "status") => doc.status = "pending"
          /\ ~Has(b, "priority") => doc.priority = "medium"]_vars

\* C18 witness: a task was created from a title and a description alone.
CreatedFromTitleAndDescription ==
  /\ resp.op = "create" /\ resp.status = 201
  /\ DOMAIN resp.body = {"title", "description"}
  /\ resp.id \in DOMAIN tasks
  /\ tasks[resp.id].assignedTo = resp.caller
  /\ tasks[resp.id].status = "pending"

\* C19: a response carries an error message only when it is a 500 of a server
\* whose NODE_ENV is not 'production'; under 'production' no response carries
\* the error text.
ErrorTextOnlyOutsideProduction ==
  /\ env = "production" => resp.error = NoError
  /\ resp.error # NoError => (resp.status = 500 /\ env # "production")

\* C19 witness: a handler failed under NODE_ENV=production and the 500 went out
\* without the message.
FailedInProduction ==
  /\ env = "production"
  /\ resp.status = 500 /\ resp.op = "create"
  /\ resp.error = NoError

\* C21: from any status any authorized writer (admin, creator or assignee)
\* sets any of the three statuses with a single PUT, completed to pending
\* included, and no stored task ever has a status outside the three.
StatusFreelyMutable ==
  [][/\ \A id \in DOMAIN tasks' : tasks'[id].status \in Statuses
     /\ ( /\ resp'.op = "update" /\ resp'.id \in DOMAIN tasks
          /\ DOMAIN resp'.body = {"status"} /\ resp'.body["status"] \in Statuses
          /\ IsAdmin(resp'.caller) \/ Owns(resp'.caller, tasks[resp'.id]) )
        => (resp'.status = 200 /\ tasks'[resp'.id].status = resp'.body["status"])]_vars

\* the handler of a PUT of user u leaves the await it is suspended at
LeavesAwait(u, pc) == calls[u].op = "update" /\ calls[u].pc = pc /\ calls'[u] # calls[u]

\* C22 as stated: of two PUT requests on one task that are under way together,
\* each from a caller the task lets write when the request arrives, neither is
\* refused because of the other.
ConcurrentUpdatesBothAccepted ==
  [][\A u \in Users :
       (calls[u].op = "update" /\ calls[u].entitled /\ calls'[u] = NoCall)
         => resp'.status = 200]_vars

\* C22 amended: a PUT that has passed its permission check is written whatever
\* the other has written since: every field it supplies takes its value, every
\* other field keeps the value stored last, and it is answered 200; a PUT
\* whose caller the other has reassigned the task away from before its
\* permission check is answered 403 and writes nothing.
LastWriteWins ==
  [][\A u \in Users :
       LET id == calls[u].id
           b == calls[u].body
       IN /\ LeavesAwait(u, "findByIdAndUpdate") =>
               /\ resp'.caller = u /\ resp'.status = 200
               /\ id \in DOMAIN tasks /\ DOMAIN tasks' = DOMAIN tasks
               /\ \A i \in DOMAIN tasks \ {id} : tasks'[i] = tasks[i]
               /\ \A k \in DOMAIN tasks[id] :
                    tasks'[id][k] = IF k \in DOMAIN b THEN b[k] ELSE tasks[id][k]
          /\ (LeavesAwait(u, "findById") /\ id \in DOMAIN tasks /\ ~CanUpdate(u, tasks[id])) =>
               (resp'.caller = u /\ resp'.status = 403 /\ tasks' = tasks)]_vars

\* C22 witness: of two PUTs that both passed the permission check, the one of
\* the creator has been written, and the one of the assignee, which supplies
\* another field, is still to be written to the task as the first left it.
OneWrittenOtherPending ==
  /\ resp.op = "update" /\ resp.status = 200 /\ resp.caller = "user1"
  /\ DOMAIN resp.body = {"status"}
  /\ calls["user2"].op = "update" /\ calls["user2"].pc = "findByIdAndUpdate"
  /\ calls["user2"].id = resp.id
  /\ DOMAIN calls["user2"].body = {"priority"}
  /\ tasks[resp.id].status = resp.body["status"]

\* C23: no sequence of requests of a user who is not an admin and did not
\* create a task removes it: a task created by user1 leaves the store only
\* through a DELETE of an admin or of user1.
OnlyAdminOrCreatorRemoves ==
  [][\A id \in DOMAIN tasks :
       id \notin DOMAIN tasks' =>
         /\ resp'.op = "delete" /\ resp'.id = id
         /\ IsAdmin(resp'.caller) \/ resp'.caller = "user1"]_vars

\* C24: whenever the write of a PUT /tasks/:id is applied, its caller is admin,
\* creator or assignee of the task as the store holds it at that moment; a
\* caller the task was reassigned away from between the permission check and
\* the write does not modify it.
WriterAuthorizedAtWrite ==
  [][\A u \in Users :
       (LeavesAwait(u, "findByIdAndUpdate") /\ calls[u].id \in DOMAIN tasks)
         => \/ CanUpdate(u, tasks[calls[u].id])
            \/ (resp'.status # 200 /\ tasks' = tasks)]_vars

\* C25: a PUT /tasks/:id is never answered with success for a task the store
\* does not hold when its write is applied: when a DELETE removed the task
\* between the lookup and the write of the PUT, the PUT is answered 404.
UpdateOfDeletedTaskAnswered404 ==
  [][\A u \in Users :
       (LeavesAwait(u, "findByIdAndUpdate") /\ calls[u].id \notin DOMAIN tasks)
         => (resp'.caller = u /\ resp'.status = 404)]_vars

\* C26: in every response of GET /tasks the page and pagination.total describe
\* one state of the store, also when tasks are created or deleted during the
\* request: total is the number of matching tasks in the state the page was
\* read from, so the page holds min(limit, max(0, total - (current - 1) * limit))
\* tasks.
PageAndTotalOfOneState ==
  (resp.op = "list" /\ resp.status = 200) =>
    LET p == resp.pagination
    IN Len(resp.items) = Min(p.limit, Max(0, p.total - (p.current - 1) * p.limit))

\* the ids of the tasks that were created and are no longer stored; ids are
\* given out in order and only DELETE removes a task
Deleted == (1..(nextId - 1)) \ DOMAIN tasks

\* a response goes out to a request whose lookup in the store is part of the
\* step: every response but that of a PUT that did its lookup before
WithLookup == resp' # resp /\ \A u \in Users : ~LeavesAwait(u, "findByIdAndUpdate")

\* C27: after a DELETE /tasks/:id answered with success the task is absent from
\* the store and stays absent, also under the write of a PUT that was under
\* way: every later GET, PUT or DELETE on that id, of any caller, finds no
\* task (404, or 400 when the validator refuses the body before the lookup),
\* and no later listing or statistics counts the task.
DeletedStaysGone ==
  [][/\ (resp'.op = "delete" /\ resp'.status = 200) => resp'.id \notin DOMAIN tasks'
     /\ \A id \in Deleted : id \notin DOMAIN tasks'
     /\ (WithLookup /\ resp'.op \in {"get", "update", "delete"} /\ resp'.id \in Deleted) =>
          /\ resp'.status = IF resp'.op = "update" /\ UpdateErrors(resp'.body) # {}
                              THEN 400 ELSE 404
          /\ resp'.items = <<>>
     /\ resp'.op = "list" =>
          \A n \in 1..Len(resp'.items) : resp'.items[n].id \notin Deleted
     /\ resp'.op = "stats" =>
          resp'.stats.total =
            Cardinality({i \in DOMAIN tasks \ Deleted :
                           IsAdmin(resp'.caller) \/ Owns(resp'.caller, tasks[i])})]_vars

\* C27 witness: the assignee of a deleted task asked for it by id and was
\* answered 404, while another task is still stored.
DeletedTaskNotFound ==
  /\ resp.op = "get" /\ resp.status = 404
  /\ resp.caller = "user2"
  /\ resp.id \in Deleted
  /\ DOMAIN tasks # {}

\* C28: with the store available no authenticated request to a task route is
\* answered 500: a request succeeds, or its fault is answered 400, 403 or 404.
ClientFaultsNeverAnswered500 ==
  resp.op # "none" => resp.status \in {200, 201, 400, 403, 404}

ListingOf(q) ==
  LET matching == Matching(PageUser, q)
      limit == ParseIntOr(q, "limit", DefaultLimit)
      page == ParseIntOr(q, "page", DefaultPage)
      ids == SkipLimit(CHOOSE order \in SortedOrders(matching) : TRUE, (page - 1) * limit, limit)
  IN [tasks |-> [n \in 1..Len(ids) |-> Item(ids[n], Hydrate(tasks[ids[n]]))],
      pagination |-> [current |-> page, pages |-> CeilDiv(Cardinality(matching), limit),
                      total |-> Cardinality(matching), limit |-> limit]]

====
